---- MODULE Spec2Model ----
(***************************************************************************)
(* Model of the Energy repository: the spreadsheet loader                  *)
(* (src/Mix/createDB.py: ReadExcel, UpdateSQLite) and the dashboard's data *)
(* functions and callbacks (src/MixPlot/mixPlot.py: load_data,             *)
(* aggregate_annual, percent_mix, update_plot, update_pie).                *)
(*                                                                         *)
(* Floating-point values are modelled as extended rationals n/d:           *)
(* d > 0 is a finite value in lowest terms, 0/0 is NaN, 1/0 is +inf and    *)
(* -1/0 is -inf.  Rounding is not modelled.                                *)
(***************************************************************************)
EXTENDS Integers, Sequences, FiniteSets, TLC

(* ------------------------------ bounds --------------------------------- *)
\* rows of a spreadsheet, of a table and of a DataFrame
MaxRows == 2
\* calendar years that occur in the data
MaxYears == 2
\* largest production value of the data
MaxVal == 2

(* --------------------------- float values ------------------------------ *)
Abs(i) == IF i < 0 THEN -i ELSE i

Sgn(i) == IF i < 0 THEN -1 ELSE IF i = 0 THEN 0 ELSE 1

RECURSIVE Gcd(_, _)
Gcd(a, b) == IF b = 0 THEN a ELSE Gcd(b, a % b)

\* the float n/d (d # 0), in lowest terms with a positive denominator
Fin(n, d) ==
    LET g == Gcd(Abs(n), Abs(d))
    IN  [n |-> (Sgn(d) * n) \div g, d |-> Abs(d) \div g]

NaN == [n |-> 0, d |-> 0]

Inf(s) == [n |-> s, d |-> 0]

Flt(i) == [n |-> i, d |-> 1]

IsNaN(x) == x.d = 0 /\ x.n = 0

IsInf(x) == x.d = 0 /\ x.n # 0

IsFinite(x) == x.d # 0

\* IEEE addition
FAdd(x, y) ==
    IF IsNaN(x) \/ IsNaN(y) THEN NaN
    ELSE IF IsInf(x) /\ IsInf(y) THEN (IF x.n = y.n THEN x ELSE NaN)
    ELSE IF IsInf(x) THEN x
    ELSE IF IsInf(y) THEN y
    ELSE Fin(x.n * y.d + y.n * x.d, x.d * y.d)

\* IEEE multiplication
FMul(x, y) ==
    IF IsNaN(x) \/ IsNaN(y) THEN NaN
    ELSE IF IsInf(x) \/ IsInf(y)
         THEN (IF x.n = 0 \/ y.n = 0 THEN NaN ELSE Inf(Sgn(x.n) * Sgn(y.n)))
    ELSE Fin(x.n * y.n, x.d * y.d)

\* IEEE division as numpy performs it on float64 columns (no exception:
\* x/0 is +-inf, 0/0 is NaN)
FDiv(x, y) ==
    IF IsNaN(x) \/ IsNaN(y) THEN NaN
    ELSE IF IsInf(y) THEN (IF IsInf(x) THEN NaN ELSE Flt(0))
    ELSE IF y.n = 0 THEN (IF x.n = 0 THEN NaN ELSE Inf(Sgn(x.n)))
    ELSE IF IsInf(x) THEN Inf(Sgn(x.n) * Sgn(y.n))
    ELSE Fin(x.n * y.d, x.d * y.n)

\* pandas' sum over a sequence of floats with skipna=True (the default of
\* DataFrame.sum and GroupBy.sum): NaN entries count as 0
RECURSIVE NanSum(_)
NanSum(s) ==
    IF s = <<>> THEN Flt(0)
    ELSE FAdd(IF IsNaN(Head(s)) THEN Flt(0) ELSE Head(s), NanSum(Tail(s)))

Range(s) == {s[i] : i \in 1..Len(s)}

(* ------------------------- createDB.py: ReadExcel ---------------------- *)
\* columns_mapping of _remap_dataFrame: source header -> short name
columns_mapping ==
    <<  <<"Coal Production", "Coal">>,
        <<"Natural Gas (Dry) Production", "GasDry">>,
        <<"Natural Gas Plant Liquids Production", "GasLiquid">>,
        <<"Crude Oil Production", "CrudeOil">>,
        <<"Nuclear Electric Power Production", "Nuclear">>,
        <<"Hydroelectric Power Production", "Hydro">>,
        <<"Geothermal Energy Production", "Geothermal">>,
        <<"Solar Energy Production", "Solar">>,
        <<"Wind Energy Production", "Wind">>,
        <<"Biomass Energy Production", "Biomass">> >>

MappingKeys == [i \in 1..Len(columns_mapping) |-> columns_mapping[i][1]]

MappingValues == [i \in 1..Len(columns_mapping) |-> columns_mapping[i][2]]

\* DataFrame.rename(columns=columns_mapping) on one column name
Rename(c) ==
    IF \E i \in 1..Len(columns_mapping) : columns_mapping[i][1] = c
    THEN columns_mapping[CHOOSE i \in 1..Len(columns_mapping) :
                             columns_mapping[i][1] = c][2]
    ELSE c

\* the source header renamed to a short name
SourceOf(short) ==
    IF \E i \in 1..Len(columns_mapping) : columns_mapping[i][2] = short
    THEN columns_mapping[CHOOSE i \in 1..Len(columns_mapping) :
                             columns_mapping[i][2] = short][1]
    ELSE short

(* A cell of a DataFrame or of a table: t is its kind ("num" a float v,   *)
(* "text" a string s, "empty" a missing value, "ts" a timestamp of month   *)
(* m of year y, "iso" the ISO text sqlite stores for a timestamp).         *)
Cell(t, v, s, y, m) == [t |-> t, v |-> v, s |-> s, y |-> y, m |-> m]

FloatCell(x) == Cell("num", x, "", 0, 0)

NumCell(i) == FloatCell(Flt(i))

TextCell(s) == Cell("text", NaN, s, 0, 0)

EmptyCell == Cell("empty", NaN, "", 0, 0)

TsCell(y, m) == Cell("ts", NaN, "", y, m)

IsoCell(y, m) == Cell("iso", NaN, "", y, m)

\* what pandas' numeric parser makes of the texts that occur in the model:
\* a decimal literal parses to its value, "inf" to +inf, anything else fails
ParseText(s) ==
    CASE s = "12.34" -> Fin(1234, 100)
      [] s = "-1"    -> Flt(-1)
      [] s = "inf"   -> Inf(1)
      [] OTHER       -> NaN

\* pd.to_numeric(cell, errors="coerce"): numbers pass, numeric text is
\* parsed, everything else (including an empty cell) becomes NaN
to_numeric(cell) ==
    CASE cell.t = "num"  -> cell.v
      [] cell.t = "text" -> ParseText(cell.s)
      [] OTHER           -> NaN

\* a faulty variant of fillna: missing values are left as they are
fillna_Keep(x) == x

\* Series.fillna(0.0) on one value
fillna(x) == IF IsNaN(x) THEN Flt(0) ELSE x

\* a faulty variant of the coercion loop: the Date column is coerced as well
remap_cell_CoerceDate(col, cell) == FloatCell(fillna(to_numeric(cell)))

\* body of the loop of _remap_dataFrame for one cell of column col: every
\* column but Date is coerced to a float, NaN filled with 0.0
remap_cell(col, cell) ==
    IF col # "Date"
    THEN FloatCell(fillna(to_numeric(cell)))
    ELSE cell

\* data_frame[["Date"] + list(columns_mapping.keys())] followed by rename:
\* the column list of the result
remap_columns(cols) ==
    [i \in 1..(1 + Len(MappingKeys)) |->
        IF i = 1 THEN "Date" ELSE Rename(MappingKeys[i - 1])]

\* the columns _remap_dataFrame selects; a KeyError if one is absent
RequiredHeaders == {"Date"} \cup Range(MappingKeys)

(* A DataFrame: cols its column names in order, num the columns of        *)
(* numeric dtype, rows its rows, each a function from column name to cell. *)
Frame(cols, num, rows) == [cols |-> cols, num |-> num, rows |-> rows]

\* ReadExcel._remap_dataFrame on a frame whose columns include the
\* required headers
_remap_dataFrame(df) ==
    LET cols == remap_columns(df.cols)
    IN  Frame(cols,
              {c \in Range(cols) :
                  c # "Date" \/ (c \in df.num /\ c \in Range(df.cols))},
              [r \in 1..Len(df.rows) |->
                  [c \in Range(cols) |->
                      remap_cell(c, df.rows[r][SourceOf(c)])]])

(* ------------------------ mixPlot.py: data functions ------------------- *)
\* the numeric columns of df, in column order (select_dtypes("number"))
NumericCols(df) == SelectSeq(df.cols, LAMBDA c : c \in df.num)

\* the sequence without its entries equal to c (DataFrame.drop(columns=[c]))
DropCol(cols, c) == SelectSeq(cols, LAMBDA x : x # c)

\* the values of column c in the rows of df
Column(df, c) == [r \in 1..Len(df.rows) |-> df.rows[r][c].v]

\* df["Year"] = df["Date"].dt.year: the frame the caller's df becomes
WithYear(df) ==
    Frame(IF "Year" \in Range(df.cols) THEN df.cols ELSE Append(df.cols, "Year"),
          df.num \cup {"Year"},
          [r \in 1..Len(df.rows) |->
              [c \in Range(df.cols) \cup {"Year"} |->
                  IF c = "Year" THEN NumCell(df.rows[r]["Date"].y)
                  ELSE df.rows[r][c]]])

RECURSIVE SortedSeq(_)
\* the elements of a set of integers in ascending order
SortedSeq(S) ==
    IF S = {} THEN <<>>
    ELSE LET lo == CHOOSE x \in S : \A y \in S : x <= y
         IN  <<lo>> \o SortedSeq(S \ {lo})

RECURSIVE FirstSeen(_)
\* the elements of a sequence in the order of their first occurrence
FirstSeen(s) ==
    IF s = <<>> THEN <<>>
    ELSE <<Head(s)>> \o FirstSeen(SelectSeq(Tail(s), LAMBDA x : x # Head(s)))

\* a faulty variant of the grouping: groups in the order the years first occur
GroupKeys_Unsorted(df) ==
    FirstSeen([r \in 1..Len(df.rows) |-> df.rows[r]["Date"].y])

\* the distinct years of the rows, ascending (the group keys of
\* groupby("Year"), which sorts them)
GroupKeys(df) == SortedSeq({df.rows[r]["Date"].y : r \in 1..Len(df.rows)})

\* the sum of column c over the rows of year y (GroupBy.sum skips NaN)
GroupSum(df, y, c) ==
    NanSum(Column(Frame(df.cols, df.num,
                        SelectSeq(df.rows, LAMBDA row : row["Date"].y = y)), c))

\* aggregate_annual(df): the frame it returns
aggregate_annual(df) ==
    LET dfy  == WithYear(df)
        keys == GroupKeys(dfy)
        ncol == DropCol(NumericCols(dfy), "Year")
        cols == Append(DropCol(ncol, "Date"), "Date")
    IN  Frame(cols, Range(ncol) \ {"Date"},
              [g \in 1..Len(keys) |->
                  [c \in Range(cols) |->
                      IF c = "Date" THEN TsCell(keys[g], 1)
                      ELSE FloatCell(GroupSum(dfy, keys[g], c))]])

\* the total of row r over the numeric columns (sum(axis=1) skips NaN)
RowTotal(df, r) ==
    LET nc == NumericCols(df)
    IN  NanSum([i \in 1..Len(nc) |-> df.rows[r][nc[i]].v])

\* a faulty variant of percent_mix: the share is not scaled to a percentage
percent_mix_Fraction(df) ==
    Frame(df.cols, df.num,
          [r \in 1..Len(df.rows) |->
              [c \in Range(df.cols) |->
                  IF c \in df.num
                  THEN FloatCell(FDiv(df.rows[r][c].v, RowTotal(df, r)))
                  ELSE df.rows[r][c]]])

\* percent_mix(df): each numeric column divided by the row total, times 100
percent_mix(df) ==
    Frame(df.cols, df.num,
          [r \in 1..Len(df.rows) |->
              [c \in Range(df.cols) |->
                  IF c \in df.num
                  THEN FloatCell(FMul(FDiv(df.rows[r][c].v, RowTotal(df, r)),
                                      Flt(100)))
                  ELSE df.rows[r][c]]])

\* load_data's read: pd.read_sql_query("SELECT * FROM EnergyMix", conn,
\* parse_dates=["Date"]) turns the stored ISO text into a timestamp
parse_dates(cell) == IF cell.t = "iso" THEN TsCell(cell.y, cell.m) ELSE cell

\* load_data() on an existing EnergyMix table: every column is read, Date
\* parsed, and the CrudeOil column dropped when present
load_data(table) ==
    LET cols == DropCol(table.cols, "CrudeOil")
    IN  Frame(cols, Range(cols) \ {"Date"},
              [r \in 1..Len(table.rows) |->
                  [c \in Range(cols) |->
                      IF c = "Date" THEN parse_dates(table.rows[r][c])
                      ELSE table.rows[r][c]]])

(* ------------------------ createDB.py: UpdateSQLite -------------------- *)
NoTable == [exists |-> FALSE, cols |-> <<>>, rows |-> <<>>]

Table(cols, rows) == [exists |-> TRUE, cols |-> cols, rows |-> rows]

\* the schema of CREATE TABLE EnergyMix
EnergyMixSchema == <<"Date">> \o MappingValues

NoFile == [exists |-> FALSE, cols |-> <<>>, rows |-> <<>>]

\* the columns of numeric dtype of a sheet as read_excel infers them
SheetNum(cols, rows) ==
    {c \in Range(cols) :
        \A r \in 1..Len(rows) : rows[r][c].t \in {"num", "empty"}}

\* a faulty variant of _read_excel_file: a missing file reads as an empty sheet
\* with the expected headers
_read_excel_file_NoExit(file) ==
    IF file.exists
    THEN [exit |-> FALSE,
          df |-> Frame([i \in 1..Len(file.cols) |->
                           IF i = 1 THEN "Date" ELSE file.cols[i]],
                       SheetNum(file.cols, file.rows) \ {file.cols[1]},
                       [r \in 1..Len(file.rows) |->
                           [c \in {"Date"} \cup (Range(file.cols) \ {file.cols[1]}) |->
                               IF c = "Date" THEN file.rows[r][file.cols[1]]
                               ELSE file.rows[r][c]]])]
    ELSE [exit |-> FALSE,
          df |-> Frame(<<"Date">> \o MappingKeys, Range(MappingKeys), <<>>)]

\* ReadExcel._read_excel_file: the sheet with its first column renamed to
\* Date, or sys.exit(1) when the file does not exist
_read_excel_file(file) ==
    IF file.exists
    THEN [exit |-> FALSE,
          df |-> Frame([i \in 1..Len(file.cols) |->
                           IF i = 1 THEN "Date" ELSE file.cols[i]],
                       SheetNum(file.cols, file.rows) \ {file.cols[1]},
                       [r \in 1..Len(file.rows) |->
                           [c \in {"Date"} \cup (Range(file.cols) \ {file.cols[1]}) |->
                               IF c = "Date" THEN file.rows[r][file.cols[1]]
                               ELSE file.rows[r][c]]])]
    ELSE [exit |-> TRUE, df |-> Frame(<<>>, {}, <<>>)]

\* UpdateSQLite._drop_table: DROP TABLE IF EXISTS Mix
_drop_table(d) == [d EXCEPT !.Mix = NoTable]

\* UpdateSQLite._create_newTable: CREATE TABLE EnergyMix (...), which sqlite
\* refuses when a table of that name exists
_create_newTable(d) ==
    IF d.EnergyMix.exists
    THEN [err |-> TRUE, db |-> d]
    ELSE [err |-> FALSE, db |-> [d EXCEPT !.EnergyMix = Table(EnergyMixSchema, <<>>)]]

\* the value to_sql binds for a cell: a timestamp becomes its ISO text
to_sql_cell(cell) == IF cell.t = "ts" THEN IsoCell(cell.y, cell.m) ELSE cell

\* UpdateSQLite._insert_data: df_subset.to_sql("EnergyMix", if_exists=
\* "append", index=False) in one transaction; a repeated Date violates the
\* primary key and the transaction is rolled back
_insert_data(d, df) ==
    LET new  == [r \in 1..Len(df.rows) |->
                    [c \in Range(d.EnergyMix.cols) |-> to_sql_cell(df.rows[r][c])]]
        all  == d.EnergyMix.rows \o new
        dup  == \E i, j \in 1..Len(all) : i < j /\ all[i]["Date"] = all[j]["Date"]
    IN  IF dup
        THEN [err |-> TRUE, db |-> d]
        ELSE [err |-> FALSE, db |-> [d EXCEPT !.EnergyMix.rows = all]]

\* the outcome of one operation: how it ended, the store statements it
\* issued, the state of the connection it opened, the store it leaves
Outcome(res, stmts, c, d) == [result |-> res, ops |-> stmts, conn |-> c, db |-> d]

\* UpdateSQLite.__init__(file_name, db_name) from reading the sheet to
\* closing the connection
UpdateSQLite_init(file, d) ==
    LET rd == _read_excel_file(file)
    IN  IF rd.exit THEN Outcome("SystemExit(1)", <<>>, "none", d)
        ELSE IF ~(RequiredHeaders \subseteq Range(rd.df.cols))
        THEN Outcome("KeyError", <<>>, "none", d)
        ELSE
        LET df_subset == _remap_dataFrame(rd.df)
            d1 == _drop_table(d)
            cr == _create_newTable(d1)
            ins == _insert_data(cr.db, df_subset)
        IN  IF cr.err
            THEN Outcome("OperationalError", <<"connect", "drop", "create">>,
                         "open", cr.db)
            ELSE IF ins.err
            THEN Outcome("IntegrityError",
                         <<"connect", "drop", "create", "insert">>, "open", ins.db)
            ELSE Outcome("ok",
                         <<"connect", "drop", "create", "insert", "commit", "close">>,
                         "closed", ins.db)

(* ------------------------ mixPlot.py: create_app ----------------------- *)
NoApp == [loaded |-> FALSE, df_full |-> Frame(<<>>, {}, <<>>),
          energy_sources |-> <<>>, min_year |-> 0, max_year |-> 0]

MinOf(S) == CHOOSE x \in S : \A y \in S : x <= y

MaxOf(S) == CHOOSE x \in S : \A y \in S : x >= y

\* create_app() given the frame load_data returned (at least one row)
AppOf(df) ==
    [loaded |-> TRUE, df_full |-> df,
     energy_sources |-> DropCol(df.cols, "Date"),
     min_year |-> MinOf({df.rows[r]["Date"].y : r \in 1..Len(df.rows)}),
     max_year |-> MaxOf({df.rows[r]["Date"].y : r \in 1..Len(df.rows)})]

\* the module-level create_app(): load_data() opens a connection, reads
\* the table and closes the connection, then the slider range is computed
\* (range() over the years of an empty table raises)
create_app_run(d) ==
    IF ~d.EnergyMix.exists
    THEN [result |-> "DatabaseError", ops |-> <<"connect", "select">>,
          conn |-> "open", app |-> NoApp]
    ELSE IF d.EnergyMix.rows = <<>>
    THEN [result |-> "Exception", ops |-> <<"connect", "select", "close">>,
          conn |-> "closed", app |-> NoApp]
    ELSE [result |-> "ok", ops |-> <<"connect", "select", "close">>,
          conn |-> "closed", app |-> AppOf(load_data(d.EnergyMix))]

(* ------------------------ mixPlot.py: callbacks ------------------------ *)
\* df[(df["Date"].dt.year >= start_year) & (df["Date"].dt.year <= end_year)]
FilterYears(df, start_year, end_year) ==
    Frame(df.cols, df.num,
          SelectSeq(df.rows, LAMBDA row :
              row["Date"].y >= start_year /\ row["Date"].y <= end_year))

\* go.Figure() with one trace per selected source: x the Date column, y the
\* source's column
FigureOf(df, sources) ==
    [traces |-> [i \in 1..Len(sources) |->
                    [name |-> sources[i],
                     x |-> [r \in 1..Len(df.rows) |-> df.rows[r]["Date"]],
                     y |-> Column(df, sources[i])]]]

EmptyFigure == [traces |-> <<>>]

(* DataFrames are objects: a callback's variable df names one of them and  *)
(* an assignment to a column changes the object, whoever else names it.    *)
(* A heap maps the names of the objects of one callback to their frames    *)
(* (the frame without columns for an object not created yet); "df_full"    *)
(* is app.df_full.                                                         *)
Objects ==
    {"df_full", "copy", "filtered", "annual", "percent", "annual2", "percent2"}

\* the heap a callback starts with: app.df_full and nothing else
HeapOf(df_full) ==
    [o \in Objects |-> IF o = "df_full" THEN df_full ELSE Frame(<<>>, {}, <<>>)]

\* a faulty variant of DataFrame.copy(): the object itself is handed back
df_copy_Alias(heap, src, new) == [heap |-> heap, ref |-> src]

\* DataFrame.copy(): a new object with the contents of src
df_copy(heap, src, new) ==
    [heap |-> [heap EXCEPT ![new] = heap[src]], ref |-> new]

\* df = aggregate_annual(df) on the object ref: the object gets the Year
\* column, the result is the new object new
call_aggregate(heap, ref, new) ==
    [heap |-> [heap EXCEPT ![ref] = WithYear(@),
                           ![new] = aggregate_annual(heap[ref])],
     ref |-> new]

\* df = percent_mix(df) on the object ref: DataFrame.assign returns the new
\* object new
call_percent(heap, ref, new) ==
    [heap |-> [heap EXCEPT ![new] = percent_mix(heap[ref])], ref |-> new]

\* the objects of update_plot for a non-empty selection: df_full copied,
\* the copy filtered to the year range (a new object), then
\* aggregate/percent and aggregate/percent once more; the heap it leaves
\* and the object its variable df names
update_plot_heap(df_full, time_res, view_type, start_year, end_year) ==
    LET c  == df_copy(HeapOf(df_full), "df_full", "copy")
        h0 == [heap |-> [c.heap EXCEPT !["filtered"] =
                            FilterYears(c.heap[c.ref], start_year, end_year)],
               ref |-> "filtered"]
        h1 == IF time_res = "annual"
              THEN call_aggregate(h0.heap, h0.ref, "annual") ELSE h0
        h2 == IF view_type = "percent"
              THEN call_percent(h1.heap, h1.ref, "percent") ELSE h1
        h3 == IF time_res = "annual"
              THEN call_aggregate(h2.heap, h2.ref, "annual2") ELSE h2
        h4 == IF view_type = "percent"
              THEN call_percent(h3.heap, h3.ref, "percent2") ELSE h3
    IN  h4

\* the frame update_plot plots: the copy of df_full filtered to the year
\* range, then aggregate/percent, then aggregate/percent once more
update_plot_df(df_full, time_res, view_type, start_year, end_year) ==
    LET df0 == FilterYears(df_full, start_year, end_year)
        df1 == IF time_res = "annual" THEN aggregate_annual(df0) ELSE df0
        df2 == IF view_type = "percent" THEN percent_mix(df1) ELSE df1
        df3 == IF time_res = "annual" THEN aggregate_annual(df2) ELSE df2
        df4 == IF view_type = "percent" THEN percent_mix(df3) ELSE df3
    IN  df4

\* update_plot(sources, time_res, view_type, year_range): the figure it
\* returns and app.df_full as it leaves it
update_plot_run(df_full, sources, time_res, view_type, start_year, end_year) ==
    IF sources = <<>> THEN [fig |-> EmptyFigure, df_full |-> df_full]
    ELSE [fig |-> FigureOf(update_plot_df(df_full, time_res, view_type,
                                          start_year, end_year), sources),
          df_full |-> update_plot_heap(df_full, time_res, view_type,
                                       start_year, end_year).heap["df_full"]]

\* update_plot(sources, time_res, view_type, year_range): the figure
update_plot_fig(df_full, sources, time_res, view_type, start_year, end_year) ==
    update_plot_run(df_full, sources, time_res, view_type,
                    start_year, end_year).fig

\* totals = df_year.drop(columns=["Date", "Year"]).sum() for the rows of
\* selected_year: column -> sum (NaN skipped; 0.0 over no rows)
YearTotals(df_full, selected_year) ==
    LET df == WithYear(df_full)
        df_year == Frame(df.cols, df.num,
                         SelectSeq(df.rows, LAMBDA row :
                             row["Year"] = NumCell(selected_year)))
    IN  [c \in Range(df.cols) \ {"Date", "Year"} |-> NanSum(Column(df_year, c))]

\* Series.get(key, 0)
Get(totals, key) == IF key \in DOMAIN totals THEN totals[key] ELSE Flt(0)

\* a faulty variant of pie_data: the plant liquids are counted among the others
pie_data_LiquidsInOthers(totals) ==
    << [label |-> "Gas", value |-> Get(totals, "GasDry")],
       [label |-> "Coal", value |-> Get(totals, "Coal")],
       [label |-> "Nuclear", value |-> Get(totals, "Nuclear")],
       [label |-> "Wind", value |-> Get(totals, "Wind")],
       [label |-> "Solar", value |-> Get(totals, "Solar")],
       [label |-> "All Others",
        value |-> FAdd(FAdd(FAdd(Get(totals, "Hydro"), Get(totals, "Geothermal")),
                            Get(totals, "Biomass")), Get(totals, "GasLiquid"))] >>

\* pie_data of update_pie, in the order of its keys
pie_data(totals) ==
    << [label |-> "Gas",
        value |-> FAdd(Get(totals, "GasDry"), Get(totals, "GasLiquid"))],
       [label |-> "Coal", value |-> Get(totals, "Coal")],
       [label |-> "Nuclear", value |-> Get(totals, "Nuclear")],
       [label |-> "Wind", value |-> Get(totals, "Wind")],
       [label |-> "Solar", value |-> Get(totals, "Solar")],
       [label |-> "All Others",
        value |-> FAdd(FAdd(Get(totals, "Hydro"), Get(totals, "Geothermal")),
                       Get(totals, "Biomass"))] >>

\* update_pie(selected_year): labels and values of the pie
update_pie_data(df_full, selected_year) ==
    pie_data(YearTotals(df_full, selected_year))

\* update_pie(selected_year): df_full copied, the Year column added to the
\* copy; the pie it returns and app.df_full as it leaves it
update_pie_run(df_full, selected_year) ==
    LET c == df_copy(HeapOf(df_full), "df_full", "copy")
        h == [c.heap EXCEPT ![c.ref] = WithYear(@)]
    IN  [pie |-> update_pie_data(h[c.ref], selected_year),
         df_full |-> h["df_full"]]

(* ------------------------------ the data ------------------------------- *)
FirstYear == 1973

Years == FirstYear..(FirstYear + MaxYears - 1)

Months == {1, 12}

Dates == Years \X Months

\* the k-th month of the data in calendar order: January and December of
\* FirstYear, of the next year, ...
MonthOfIndex(k) == <<FirstYear + ((k - 1) \div 2), IF k % 2 = 1 THEN 1 ELSE 12>>

Vals == (-1)..MaxVal

Fields == Range(MappingValues)

\* the field after f in the schema (the last one is followed by the first)
NextField(f) ==
    LET i == CHOOSE j \in 1..Len(MappingValues) : MappingValues[j] = f
    IN  MappingValues[(i % Len(MappingValues)) + 1]

\* one month of production: field f holds v, the field after it holds -v
\* when offset is set, every other field holds b
TableRow(cols, date, f, b, v, offset) ==
    [c \in Range(cols) |->
        IF c = "Date" THEN IsoCell(date[1], date[2])
        ELSE IF c = f THEN NumCell(v)
        ELSE IF offset /\ c = NextField(f) THEN NumCell(-v)
        ELSE NumCell(b)]

\* the table whose r-th row is of month ps[r][1] and holds ps[r][2] in f
TableOf(cols, f, b, offset, ps) ==
    Table(cols, [r \in 1..Len(ps) |->
                    TableRow(cols, ps[r][1], f, b, ps[r][2], offset)])

\* rows of any months in any order, months may repeat
RowParamSeqs == UNION {[1..n -> Dates \X Vals] : n \in 0..MaxRows}

\* the values of f in up to MaxRows rows
ValSeqs == UNION {[1..n -> Vals] : n \in 0..MaxRows}

\* rows of consecutive months from the s-th month on
Consecutive(s, vs) == [r \in 1..Len(vs) |-> <<MonthOfIndex(s + r - 1), vs[r]>>]

\* the headers of the sheet: the month column, the ten production columns
\* and a column the loader does not use
SheetHeaders == <<"Month">> \o MappingKeys \o <<"Total Fossil Fuels Production">>

SheetCells ==
    {NumCell(-1), NumCell(0), NumCell(MaxVal), TextCell("Not Available"),
     TextCell("12.34"), TextCell("-1"), TextCell("inf"), EmptyCell}

\* a sheet of n rows of consecutive months: row p holds x in column c,
\* every other production cell holds base
SheetOf(n, p, c, x, base) ==
    [exists |-> TRUE, cols |-> SheetHeaders,
     rows |-> [r \in 1..n |->
                 [h \in Range(SheetHeaders) |->
                     IF r = p /\ h = c THEN x
                     ELSE IF h = "Month"
                          THEN TsCell(MonthOfIndex(r)[1], MonthOfIndex(r)[2])
                     ELSE base]]]

\* the sheets of the loader runs: months in any order and possibly
\* repeated, the coal column holding a number or a placeholder
LoaderCells == {NumCell(MaxVal), TextCell("Not Available")}

LoaderRowSeqs == UNION {[1..n -> Dates \X LoaderCells] : n \in 0..MaxRows}

LoaderSheet(hs, ps) ==
    [exists |-> TRUE, cols |-> hs,
     rows |-> [r \in 1..Len(ps) |->
                 [h \in Range(hs) |->
                     IF h = "Month" THEN TsCell(ps[r][1][1], ps[r][1][2])
                     ELSE IF h = "Coal Production" THEN ps[r][2]
                     ELSE NumCell(1)]]]

\* the stores a loader run may find: no table, a Mix table, an EnergyMix
\* table left by an earlier load
InitialStores ==
    {[Mix |-> m, EnergyMix |-> e] :
        m \in {NoTable, Table(EnergyMixSchema, <<>>)},
        e \in {NoTable,
               TableOf(EnergyMixSchema, "Coal", 1, FALSE, <<<<<<FirstYear, 1>>, 1>>>>)}}

(* ------------------------------ the state ------------------------------ *)
VARIABLES
    xlsx,     \* the spreadsheet file Mix.xlsx: NoFile or a sheet
    db,       \* the store Energy.db: its tables Mix and EnergyMix
    result,   \* how the last loader run or dashboard start ended
    ops,      \* the store statements that operation issued
    conn,     \* the connection that operation opened: none, open, closed
    app,      \* the dashboard application: df_full, energy_sources, years
    out,      \* the last callback: its inputs and the figure it returned
    arg,      \* the frame handed to a data function
    ret       \* the frame the data function returned

vars == <<xlsx, db, result, ops, conn, app, out, arg, ret>>

NoResult == [op |-> "none", res |-> "none"]

NoOut == [kind |-> "none", sources |-> <<>>, time_res |-> "", view_type |-> "",
          start_year |-> 0, end_year |-> 0, selected_year |-> 0,
          fig |-> EmptyFigure, pie |-> <<>>]

NoFrame == Frame(<<>>, {}, <<>>)

NoRet == [fn |-> "none", df |-> NoFrame]

EmptyStore == [Mix |-> NoTable, EnergyMix |-> NoTable]

(* ------------------------------ loader --------------------------------- *)
\* the file is missing, or a sheet with all headers, or a sheet of at most
\* one row that lacks the wind column
Init ==
    /\ \E ps \in LoaderRowSeqs, kind \in {"missing", "sheet", "no wind"} :
          xlsx = CASE kind = "sheet" -> LoaderSheet(SheetHeaders, ps)
                   [] kind = "no wind" /\ Len(ps) <= 1 ->
                        LoaderSheet(DropCol(SheetHeaders, "Wind Energy Production"), ps)
                   [] OTHER -> NoFile
    /\ db \in InitialStores
    /\ result = NoResult
    /\ ops = <<>>
    /\ conn = "none"
    /\ app = NoApp
    /\ out = NoOut
    /\ arg = NoFrame
    /\ ret = NoRet

\* main(): UpdateSQLite("Mix.xlsx")
UpdateSQLite ==
    LET o == UpdateSQLite_init(xlsx, db)
    IN  /\ db' = o.db
        /\ result' = [op |-> "UpdateSQLite", res |-> o.result]
        /\ ops' = o.ops
        /\ conn' = o.conn
        /\ UNCHANGED <<xlsx, app, out, arg, ret>>

\* starting the dashboard: app, min_year, max_year, year_marks = create_app()
create_app ==
    LET o == create_app_run(db)
    IN  /\ app' = o.app
        /\ result' = [op |-> "create_app", res |-> o.result]
        /\ ops' = o.ops
        /\ conn' = o.conn
        /\ UNCHANGED <<xlsx, db, out, arg, ret>>

Next == UpdateSQLite \/ create_app

Spec == Init /\ [][Next]_vars

(* ----------------------------- dashboard ------------------------------- *)
\* the dashboard after its start on a store that holds table t
Started(t) ==
    /\ xlsx = NoFile
    /\ db = [Mix |-> NoTable, EnergyMix |-> t]
    /\ result = [op |-> "create_app", res |-> "ok"]
    /\ ops = <<"connect", "select", "close">>
    /\ conn = "closed"
    /\ app = AppOf(load_data(db.EnergyMix))
    /\ out = NoOut
    /\ arg = NoFrame
    /\ ret = NoRet

\* the tables of the plot queries: the loader's schema, coal varying over
\* consecutive months
InitDash ==
    \E bo \in {<<0, TRUE>>, <<1, FALSE>>}, s \in 1..2,
       vs \in ValSeqs \ {<<>>} :
        /\ s = 1 \/ Len(vs) = 2
        /\ Started(TableOf(EnergyMixSchema, "Coal", bo[1], bo[2], Consecutive(s, vs)))

\* the values the source selector can deliver
SourceChoices == {<<>>, app.energy_sources}

update_plot ==
    \E sources \in SourceChoices, time_res \in {"monthly", "annual"},
       view_type \in {"raw", "percent"},
       start_year \in app.min_year..app.max_year,
       end_year \in app.min_year..app.max_year :
        /\ app.loaded
        /\ start_year <= end_year
        /\ \E o \in {update_plot_run(app.df_full, sources, time_res, view_type,
                                     start_year, end_year)} :
               /\ out' = [kind |-> "plot", sources |-> sources,
                          time_res |-> time_res, view_type |-> view_type,
                          start_year |-> start_year, end_year |-> end_year,
                          selected_year |-> 0, fig |-> o.fig, pie |-> <<>>]
               /\ app' = [app EXCEPT !.df_full = o.df_full]
        /\ UNCHANGED <<xlsx, db, result, ops, conn, arg, ret>>

update_pie ==
    \E selected_year \in app.min_year..app.max_year :
        /\ app.loaded
        /\ \E o \in {update_pie_run(app.df_full, selected_year)} :
               /\ out' = [kind |-> "pie", sources |-> <<>>, time_res |-> "",
                          view_type |-> "", start_year |-> 0, end_year |-> 0,
                          selected_year |-> selected_year, fig |-> EmptyFigure,
                          pie |-> o.pie]
               /\ app' = [app EXCEPT !.df_full = o.df_full]
        /\ UNCHANGED <<xlsx, db, result, ops, conn, arg, ret>>

NextDash == update_plot \/ update_pie

SpecDash == InitDash /\ [][NextDash]_vars

\* the tables of the pie queries: the loader's schema, or a table made
\* elsewhere that lacks the Hydro column; any one field varying
InitPie ==
    \E cols \in {EnergyMixSchema, DropCol(EnergyMixSchema, "Hydro")},
       f \in Fields, b \in {0, 1}, s \in 1..2, vs \in ValSeqs \ {<<>>} :
        Started(TableOf(cols, f, b, FALSE, Consecutive(s, vs)))

SpecPie == InitPie /\ [][update_pie]_vars

(* --------------------------- data functions ---------------------------- *)
Idle ==
    /\ xlsx = NoFile
    /\ db = EmptyStore
    /\ result = NoResult
    /\ ops = <<>>
    /\ conn = "none"
    /\ app = NoApp
    /\ out = NoOut
    /\ ret = NoRet

UnchangedRest == UNCHANGED <<xlsx, db, result, ops, conn, app, out>>

InitRemap ==
    /\ Idle
    /\ \E n \in 1..MaxRows, p \in 1..MaxRows, c \in Range(SheetHeaders),
          x \in SheetCells, base \in SheetCells :
            arg = _read_excel_file(SheetOf(n, p, c, x, base)).df

call_remap_dataFrame ==
    /\ ret.fn = "none"
    /\ ret' = [fn |-> "_remap_dataFrame", df |-> _remap_dataFrame(arg)]
    /\ UNCHANGED arg
    /\ UnchangedRest

SpecRemap == InitRemap /\ [][call_remap_dataFrame]_vars

\* rows of any months in any order, months may repeat
InitAgg ==
    /\ Idle
    /\ \E f \in {"Coal", "Biomass"}, ps \in RowParamSeqs :
            arg = load_data(TableOf(EnergyMixSchema, f, 1, FALSE, ps))

\* aggregate_annual(df) adds the Year column to the frame it is given
call_aggregate_annual ==
    /\ ret.fn = "none"
    /\ ret' = [fn |-> "aggregate_annual", df |-> aggregate_annual(arg)]
    /\ arg' = WithYear(arg)
    /\ UnchangedRest

SpecAgg == InitAgg /\ [][call_aggregate_annual]_vars

InitPct ==
    /\ Idle
    /\ \E f \in Fields, b \in {0, 1}, offset \in BOOLEAN, vs \in ValSeqs :
            arg = load_data(TableOf(EnergyMixSchema, f, b, offset, Consecutive(1, vs)))

call_percent_mix ==
    /\ ret.fn = "none"
    /\ ret' = [fn |-> "percent_mix", df |-> percent_mix(arg)]
    /\ UNCHANGED arg
    /\ UnchangedRest

SpecPct == InitPct /\ [][call_percent_mix]_vars

(* ------------------------------ claims --------------------------------- *)
LoaderOk == [op |-> "UpdateSQLite", res |-> "ok"]

\* C1: a loader run that starts from the state left by a successful run on
\* the same file and store succeeds and leaves the EnergyMix table with the
\* same rows and values (the table is replaced, not merged).
C1_RerunReplacesTable ==
    [][(result = LoaderOk /\ UpdateSQLite)
          => (result' = LoaderOk /\ db'.EnergyMix = db.EnergyMix)]_vars

\* C2: when the spreadsheet does not exist the loader ends with exit status
\* 1 before any store operation: no connection is opened, no statement is
\* issued and the store, an existing EnergyMix table included, is unchanged.
C2_MissingFileExitsBeforeStore ==
    [][(~xlsx.exists /\ UpdateSQLite)
          => /\ result' = [op |-> "UpdateSQLite", res |-> "SystemExit(1)"]
             /\ ops' = <<>>
             /\ conn' = "none"
             /\ db' = db]_vars

\* the loader has exited on a missing file and an EnergyMix table that was
\* there before is still there
C2_Witness ==
    /\ ~xlsx.exists
    /\ result = [op |-> "UpdateSQLite", res |-> "SystemExit(1)"]
    /\ db.EnergyMix.exists
    /\ Len(db.EnergyMix.rows) = 1

\* C9: every store connection that is opened is released on every exit
\* path: when the loader or the dashboard's load_data has ended, the
\* connection it opened is closed.
C9_ConnectionReleased == conn # "open"

ProductionFields ==
    {"Coal", "GasDry", "GasLiquid", "CrudeOil", "Nuclear", "Hydro",
     "Geothermal", "Solar", "Wind", "Biomass"}

Remapped == ret.fn = "_remap_dataFrame"

\* the sheet cell the loaded field c of row r was read from
SheetCell(r, c) == arg.rows[r][SourceOf(c)]

\* C3 as stated: whatever a source cell holds, every production field of
\* every loaded row is a non-null finite float that is >= 0.
C3_FieldsFiniteNonNegative ==
    Remapped =>
        \A r \in 1..Len(ret.df.rows) : \A c \in ProductionFields :
            /\ ret.df.rows[r][c].t = "num"
            /\ ret.df.rows[r][c].v.d > 0
            /\ ret.df.rows[r][c].v.n >= 0

\* the cell holds a negative number, or a text the numeric parser reads as
\* a negative or an infinite number
NegativeOrInfinite(cell) ==
    \/ cell.t = "num" /\ cell.v.n < 0
    \/ cell.t = "text" /\ cell.s \in {"-1", "inf"}

\* C3 as amended: every production field of every loaded row is a non-null
\* float; it is finite and >= 0 unless the source cell holds a negative
\* number or a text that parses as a negative or infinite number, and then
\* the field is that number.
C3_FieldsNonNullAndNonNegativeUnlessSourceIs ==
    Remapped =>
        \A r \in 1..Len(ret.df.rows) : \A c \in ProductionFields :
            LET x == ret.df.rows[r][c]
            IN  /\ x.t = "num"
                /\ ~(x.v.n = 0 /\ x.v.d = 0)
                /\ IF NegativeOrInfinite(SheetCell(r, c))
                   THEN x.v.n < 0 \/ x.v.d = 0
                   ELSE x.v.d > 0 /\ x.v.n >= 0

\* a sheet with an empty cell and a negative number has been loaded: the
\* empty cell reads 0.0, the negative number is still negative
C3_Witness ==
    /\ Remapped
    /\ \E r \in 1..Len(ret.df.rows) : \E c, e \in ProductionFields :
        /\ SheetCell(r, c) = NumCell(-1)
        /\ ret.df.rows[r][c].v = Flt(-1)
        /\ SheetCell(r, e) = EmptyCell
        /\ ret.df.rows[r][e].v = Flt(0)

\* what the claim expects of a production cell: a number, or a text that
\* reads as a number, keeps its value; anything else is 0.0
ExpectedField(cell) ==
    CASE cell.t = "num" -> cell.v
      [] cell.t = "text" /\ cell.s = "12.34" -> [n |-> 617, d |-> 50]
      [] cell.t = "text" /\ cell.s = "-1" -> [n |-> -1, d |-> 1]
      [] cell.t = "text" /\ cell.s = "inf" -> [n |-> 1, d |-> 0]
      [] OTHER -> [n |-> 0, d |-> 1]

\* C4: the remapping keeps exactly the date column and the ten source
\* columns under their short names; in each of the ten it replaces every
\* non-numeric or missing cell by 0.0 and leaves every numeric value
\* unchanged; the date column is not coerced.
C4_RemapKeepsColumnsAndCoerces ==
    Remapped =>
        /\ ret.df.cols = <<"Date", "Coal", "GasDry", "GasLiquid", "CrudeOil",
                           "Nuclear", "Hydro", "Geothermal", "Solar", "Wind",
                           "Biomass">>
        /\ Len(ret.df.rows) = Len(arg.rows)
        /\ \A r \in 1..Len(ret.df.rows) :
            /\ DOMAIN ret.df.rows[r] = {"Date"} \cup ProductionFields
            /\ ret.df.rows[r]["Date"] = arg.rows[r]["Date"]
            /\ \A c \in ProductionFields :
                /\ ret.df.rows[r][c].t = "num"
                /\ ret.df.rows[r][c].v = ExpectedField(SheetCell(r, c))

\* 'Coal Production' = 'Not Available' has given Coal = 0.0 and 12.34 has
\* given 12.34
C4_Witness ==
    /\ Remapped
    /\ \E r, q \in 1..Len(ret.df.rows) :
        /\ arg.rows[r]["Coal Production"] = TextCell("Not Available")
        /\ ret.df.rows[r]["Coal"].v = [n |-> 0, d |-> 1]
        /\ arg.rows[q]["Coal Production"] = TextCell("12.34")
        /\ ret.df.rows[q]["Coal"].v = [n |-> 617, d |-> 50]

RECURSIVE IntSum(_)
\* the sum of a sequence of integers
IntSum(s) == IF s = <<>> THEN 0 ELSE Head(s) + IntSum(Tail(s))

\* the numeric columns of a frame of monthly or annual rows: all but Date
ValueCols(df) == Range(df.cols) \ {"Date", "Year"}

\* the total of the (integer) values of row r of arg
ArgRowTotal(r) ==
    IntSum([i \in 1..Len(arg.cols) |->
               IF arg.cols[i] \in ValueCols(arg)
               THEN arg.rows[r][arg.cols[i]].v.n ELSE 0])

Percented == ret.fn = "percent_mix"

\* row r of arg has non-negative fields and a nonzero total
NonNegativeNonZero(r) ==
    /\ \A c \in ValueCols(arg) : arg.rows[r][c].v.n >= 0
    /\ ArgRowTotal(r) # 0

\* C5: percent_mix replaces each numeric field of a row of non-negative
\* fields with a nonzero total by value / total * 100: every result lies in
\* [0, 100], the results of the row sum to 100, the date is unchanged.
C5_PercentOfRowTotal ==
    Percented =>
        /\ ret.df.cols = arg.cols
        /\ Len(ret.df.rows) = Len(arg.rows)
        /\ \A r \in 1..Len(arg.rows) :
            NonNegativeNonZero(r) =>
                LET T == ArgRowTotal(r)
                    y == ret.df.rows[r]
                IN  /\ y["Date"] = arg.rows[r]["Date"]
                    /\ \A c \in ValueCols(arg) :
                        /\ y[c].t = "num"
                        /\ y[c].v.d > 0
                        /\ y[c].v.n * T = 100 * arg.rows[r][c].v.n * y[c].v.d
                        /\ y[c].v.n >= 0
                        /\ y[c].v.n <= 100 * y[c].v.d
                        /\ T % y[c].v.d = 0
                    /\ IntSum([i \in 1..Len(arg.cols) |->
                                 IF arg.cols[i] \in ValueCols(arg)
                                 THEN y[arg.cols[i]].v.n * (T \div y[arg.cols[i]].v.d)
                                 ELSE 0]) = 100 * T

\* a row with unequal positive fields has been converted: coal is 2 of a
\* total of 10, a share of 20
C5_Witness ==
    /\ Percented
    /\ \E r \in 1..Len(arg.rows) :
        /\ NonNegativeNonZero(r)
        /\ ArgRowTotal(r) = 10
        /\ arg.rows[r]["Coal"].v = [n |-> 2, d |-> 1]
        /\ ret.df.rows[r]["Coal"].v = [n |-> 20, d |-> 1]

\* C6: percent_mix on a row whose total over the numeric columns is zero
\* yields 0.0 for every numeric field of the row, never an undefined or
\* non-finite value.
C6_ZeroTotalGivesZero ==
    Percented =>
        \A r \in 1..Len(arg.rows) :
            ArgRowTotal(r) = 0 =>
                \A c \in ValueCols(arg) :
                    ret.df.rows[r][c].v = [n |-> 0, d |-> 1]

Aggregated == ret.fn = "aggregate_annual"

\* the calendar years that occur in the rows handed to aggregate_annual
ArgYears == {arg.rows[r]["Date"].y : r \in 1..Len(arg.rows)}

\* the sum of the (integer) values of column c over the rows of year y
ArgYearSum(y, c) ==
    IntSum([r \in 1..Len(arg.rows) |->
               IF arg.rows[r]["Date"].y = y THEN arg.rows[r][c].v.n ELSE 0])

\* C7: aggregate_annual emits exactly one row per calendar year of the
\* input, in ascending order of year, dated January 1 of the year, each
\* numeric field being the sum of the field over the input rows of the year.
C7_OneRowPerYearWithSums ==
    Aggregated =>
        /\ Len(ret.df.rows) = Cardinality(ArgYears)
        /\ \A g \in 1..Len(ret.df.rows) :
            LET row == ret.df.rows[g]
            IN  /\ DOMAIN row = ValueCols(arg) \cup {"Date"}
                /\ row["Date"].t = "ts"
                /\ row["Date"].m = 1
                /\ row["Date"].y \in ArgYears
                /\ \A c \in ValueCols(arg) :
                    /\ row[c].t = "num"
                    /\ row[c].v = [n |-> ArgYearSum(row["Date"].y, c), d |-> 1]
        /\ \A g, h \in 1..Len(ret.df.rows) :
            g < h => ret.df.rows[g]["Date"].y < ret.df.rows[h]["Date"].y

\* two months of one year, coal 2 and 1, have been summed into one row with
\* coal 3
C7_Witness ==
    /\ Aggregated
    /\ Len(arg.rows) = 2
    /\ arg.rows[1]["Date"].y = arg.rows[2]["Date"].y
    /\ arg.rows[1]["Date"].m # arg.rows[2]["Date"].m
    /\ arg.rows[1]["Coal"].v = [n |-> 2, d |-> 1]
    /\ arg.rows[2]["Coal"].v = [n |-> 1, d |-> 1]
    /\ Len(ret.df.rows) = 1
    /\ ret.df.rows[1]["Coal"].v = [n |-> 3, d |-> 1]

PieLabels == <<"Gas", "Coal", "Nuclear", "Wind", "Solar", "All Others">>

\* the sum of column c of the stored table over the rows of year y; 0 when
\* the table has no such column
StoredYearSum(y, c) ==
    IF c \in Range(db.EnergyMix.cols)
    THEN IntSum([r \in 1..Len(db.EnergyMix.rows) |->
                    IF db.EnergyMix.rows[r]["Date"].y = y
                    THEN db.EnergyMix.rows[r][c].v.n ELSE 0])
    ELSE 0

\* C8: for every selected year update_pie produces exactly the six
\* categories Gas, Coal, Nuclear, Wind, Solar, All Others from the year's
\* totals: Gas = GasDry + GasLiquid, Coal, Nuclear, Wind, Solar unchanged,
\* All Others = Hydro + Geothermal + Biomass, a missing field counting as 0;
\* crude oil is in no category and the six values sum to the year's total
\* over the nine other fields.
C8_PieCategories ==
    out.kind = "pie" =>
        LET y == out.selected_year
            val(i) == out.pie[i].value
        IN  /\ Len(out.pie) = 6
            /\ \A i \in 1..6 :
                /\ out.pie[i].label = PieLabels[i]
                /\ val(i).d = 1
            /\ val(1).n = StoredYearSum(y, "GasDry") + StoredYearSum(y, "GasLiquid")
            /\ val(2).n = StoredYearSum(y, "Coal")
            /\ val(3).n = StoredYearSum(y, "Nuclear")
            /\ val(4).n = StoredYearSum(y, "Wind")
            /\ val(5).n = StoredYearSum(y, "Solar")
            /\ val(6).n = StoredYearSum(y, "Hydro") + StoredYearSum(y, "Geothermal")
                            + StoredYearSum(y, "Biomass")
            /\ IntSum([i \in 1..6 |-> val(i).n])
                 = IntSum([i \in 1..Len(EnergyMixSchema) |->
                             IF EnergyMixSchema[i] \in {"Date", "CrudeOil"} THEN 0
                             ELSE StoredYearSum(y, EnergyMixSchema[i])])

\* a pie has been drawn for a year with two months in a table that lacks
\* the Hydro column and holds crude oil: Gas is the sum of both gas fields
C8_Witness ==
    /\ out.kind = "pie"
    /\ "Hydro" \notin Range(db.EnergyMix.cols)
    /\ Len(db.EnergyMix.rows) = 2
    /\ \A r \in 1..2 : db.EnergyMix.rows[r]["Date"].y = out.selected_year
    /\ StoredYearSum(out.selected_year, "CrudeOil") > 0
    /\ StoredYearSum(out.selected_year, "GasDry") = 3
    /\ StoredYearSum(out.selected_year, "GasLiquid") = 2
    /\ out.pie[1].value = [n |-> 5, d |-> 1]
    /\ out.pie[6].value = [n |-> 4, d |-> 1]

\* C10: for an update_plot query with annual resolution and percent values
\* the plotted values are those of aggregate_annual applied once to the
\* rows of the year range and percent_mix applied once to the result.
C10_PlotIsMixOfAnnualTotals ==
    (out.kind = "plot" /\ out.time_res = "annual" /\ out.view_type = "percent")
        => out.fig =
             IF out.sources = <<>> THEN [traces |-> <<>>]
             ELSE LET once == percent_mix(aggregate_annual(
                                  FilterYears(app.df_full, out.start_year,
                                              out.end_year)))
                  IN  [traces |-> [i \in 1..Len(out.sources) |->
                          [name |-> out.sources[i],
                           x |-> [r \in 1..Len(once.rows) |-> once.rows[r]["Date"]],
                           y |-> [r \in 1..Len(once.rows) |->
                                     once.rows[r][out.sources[i]].v]]]]

\* C11: after any sequence of update_plot and update_pie queries the base
\* table app.df_full has the columns, the rows and the values of the stored
\* table as load_data read it (no Year column, no row filtered out, no value
\* replaced), and the figure or pie last returned is the one the same query
\* gives on the table as it was loaded.
C11_BaseTableAsLoaded ==
    app.loaded =>
        LET t  == db.EnergyMix
            df == app.df_full
        IN  /\ df.cols = DropCol(t.cols, "CrudeOil")
            /\ "Year" \notin Range(df.cols) \cup df.num
            /\ df.num = Range(df.cols) \ {"Date"}
            /\ Len(df.rows) = Len(t.rows)
            /\ \A r \in 1..Len(t.rows) :
                /\ DOMAIN df.rows[r] = Range(df.cols)
                /\ df.rows[r]["Date"].y = t.rows[r]["Date"].y
                /\ df.rows[r]["Date"].m = t.rows[r]["Date"].m
                /\ \A c \in Range(df.cols) \ {"Date"} :
                    df.rows[r][c] = t.rows[r][c]
            /\ out.kind = "plot" =>
                    out.fig = update_plot_fig(load_data(t), out.sources,
                                              out.time_res, out.view_type,
                                              out.start_year, out.end_year)
            /\ out.kind = "pie" =>
                    out.pie = update_pie_data(load_data(t), out.selected_year)

\* an annual plot of every source over the whole range of a table of two
\* months in two years has been served: aggregate_annual has added the
\* Year column to the frame it was given
C11_Witness ==
    /\ out.kind = "plot"
    /\ out.time_res = "annual"
    /\ out.sources = app.energy_sources
    /\ Len(app.df_full.rows) = 2
    /\ app.min_year < app.max_year
    /\ out.start_year = app.min_year
    /\ out.end_year = app.max_year
    /\ Len(out.fig.traces[1].x) = 2

====
